---- MODULE Spec2Model ----
(***************************************************************************)
(* A model of find_min_max (src/test-3/tsk1.py), the recursive divide and  *)
(* conquer minimum/maximum selection, executed frame by frame on a Python  *)
(* call stack: list indexing wraps negative indices and raises IndexError  *)
(* outside [-len, len-1], and a chain of calls deeper than the recursion   *)
(* limit raises RecursionError. No exception is caught anywhere in the     *)
(* file, so a raised exception unwinds every frame and reaches the caller. *)
(* The other programs of the repository follow, each as a specification of *)
(* its own: the loan approval demo (src/Lab 22/22-5/22-5.py), the          *)
(* simulated port scan (src/Lab 22/22-3/22-3.py), the hospital billing     *)
(* database (src/EXAM-4/hospital_billing_sql.py) and the ECG demo          *)
(* (src/Lab 22/22-4/22-4.py).                                              *)
(***************************************************************************)
EXTENDS Integers, Sequences, FiniteSets, TLC

\* ------------------------------------------------------------------ bounds
\* Longest generated sequence (the demo array of 12 elements is added to them).
MaxLen == 6
\* Elements of the generated sequences are 0..MaxVal.
MaxVal == 1
\* Longest sequence of the specification with repeated calls.
MaxLenRepeat == 3
\* Longest sequence of the specification with fairness.
MaxLenFair == 5
\* Frames the interpreter allows before RecursionError (CPython: 1000).
RecursionLimit == 6

VARIABLES
    arr,          \* the list object passed to every call
    args,         \* (low, high) of the current or last top-level call
    stack,        \* call stack of find_min_max frames, top last
    ret,          \* value being returned by the frame that just ended
    result,       \* what the top-level caller received from the last call
    comparisons,  \* element comparisons performed by the current call
    reads,        \* indices at which the current call subscripted arr
    hist,         \* an earlier completed call kept by the caller
    pure,         \* find_min_max applied to two sequences over one range
    par,          \* the two recursive calls of one call, run side by side
    iter,         \* the work-stack version of find_min_max
    loan,         \* the loan approval window and its scoring model
    scan,         \* calls of the simulated port scan
    db,           \* the hospital billing database file and its connection
    ecg           \* the ECG demo window

\* The variables of the frame-by-frame execution of find_min_max.
mmVars == <<arr, args, stack, ret, result, comparisons, reads, hist>>

\* The variables of everything else.
\* The variables of the other programs of the repository.
apps == <<loan, scan, db, ecg>>

others == <<pure, par, iter, apps>>

vars == <<arr, args, stack, ret, result, comparisons, reads, hist, pure, par, iter,
          loan, scan, db, ecg>>

\* The value of a variable in the specifications that do not use it.
Off == [on |-> FALSE]

AppsOff == loan = Off /\ scan = Off /\ db = Off /\ ecg = Off

\* ------------------------------------------------------------------ values
Vals == 0..MaxVal

\* arr of the test code (a Python list; index i is element i+1 here).
DemoArr == <<23, 1, 45, 12, 7, 89, 34, 2, 56, 78, 10, 5>>

SeqsUpTo(n) == UNION {[1..k -> Vals] : k \in 0..n}

NoValue == [kind |-> "none", mn |-> 0, mx |-> 0]
Pair(mn, mx) == [kind |-> "pair", mn |-> mn, mx |-> mx]
Raised(e) == [kind |-> e, mn |-> 0, mx |-> 0]

NoHist == [set |-> FALSE, low |-> 0, high |-> 0, res |-> NoValue, other |-> FALSE]

\* ------------------------------------------------------ Python list indexing
\* a[i] is defined for -len(a) <= i < len(a); anything else raises IndexError.
InBounds(a, i) == -Len(a) <= i /\ i < Len(a)

\* a[i]: a negative index counts from the end of the list.
GetItem(a, i) == IF i < 0 THEN a[Len(a) + i + 1] ELSE a[i + 1]

\* min(x, y) and max(x, y) of two arguments: one comparison each.
Min2(x, y) == IF y < x THEN y ELSE x
Max2(x, y) == IF y > x THEN y ELSE x

\* ------------------------------------------------------- pieces of the body
\* Each piece yields what it returns (or raises), the list afterwards, the
\* element comparisons it made and the indices it subscripted.
Effect(a, r, c, rd) == [arr |-> a, ret |-> r, cmp |-> c, reads |-> rd]

\* if high == low + 1: one comparison, reading one position too far.
BaseTwoNeighbour(a, low, high) ==
    IF ~InBounds(a, low) THEN Effect(a, Raised("IndexError"), 0, {low})
    ELSE IF ~InBounds(a, high) THEN Effect(a, Raised("IndexError"), 0, {low, high})
    ELSE LET h == IF InBounds(a, high + 1) /\ high + 1 > 0 THEN high + 1 ELSE high IN
         IF GetItem(a, low) < GetItem(a, h)
         THEN Effect(a, Pair(GetItem(a, low), GetItem(a, h)), 1, {low, h})
         ELSE Effect(a, Pair(GetItem(a, h), GetItem(a, low)), 1, {low, h})

\* if low == high: as the code, but arr[0] is used as scratch space.
BaseOneScratch(a, low) ==
    IF InBounds(a, low)
    THEN Effect([a EXCEPT ![1] = GetItem(a, low)],
                Pair(GetItem(a, low), GetItem(a, low)), 0, {low})
    ELSE Effect(a, Raised("IndexError"), 0, {low})

\* if low == high: return arr[low], arr[low]
BaseOne(a, low) ==
    IF InBounds(a, low)
    THEN Effect(a, Pair(GetItem(a, low), GetItem(a, low)), 0, {low})
    ELSE Effect(a, Raised("IndexError"), 0, {low})

BaseTwoLostWrite(a, low, high) ==
    IF ~InBounds(a, low) THEN Effect(a, Raised("IndexError"), 0, {low})
    ELSE IF ~InBounds(a, high) THEN Effect(a, Raised("IndexError"), 0, {low, high})
    ELSE IF GetItem(a, low) < GetItem(a, high)
         THEN Effect(a, Pair(GetItem(a, low), GetItem(a, high)), 1, {low, high})
         ELSE Effect([a EXCEPT ![IF low < 0 THEN Len(a) + low + 1 ELSE low + 1] = GetItem(a, high)],
                     Pair(GetItem(a, high), GetItem(a, low)), 1, {low, high})

BaseTwoFlipped(a, low, high) ==
    IF ~InBounds(a, low) THEN Effect(a, Raised("IndexError"), 0, {low})
    ELSE IF ~InBounds(a, high) THEN Effect(a, Raised("IndexError"), 0, {low, high})
    ELSE IF GetItem(a, low) > GetItem(a, high)
         THEN Effect(a, Pair(GetItem(a, low), GetItem(a, high)), 1, {low, high})
         ELSE Effect(a, Pair(GetItem(a, high), GetItem(a, low)), 1, {low, high})

BaseTwoTwice(a, low, high) ==
    IF ~InBounds(a, low) THEN Effect(a, Raised("IndexError"), 0, {low})
    ELSE IF ~InBounds(a, high) THEN Effect(a, Raised("IndexError"), 0, {low, high})
    ELSE Effect(a, Pair(Min2(GetItem(a, low), GetItem(a, high)),
                        Max2(GetItem(a, low), GetItem(a, high))), 2, {low, high})

\* if high == low + 1: one comparison arr[low] < arr[high], smaller first.
BaseTwo(a, low, high) ==
    IF ~InBounds(a, low) THEN Effect(a, Raised("IndexError"), 0, {low})
    ELSE IF ~InBounds(a, high) THEN Effect(a, Raised("IndexError"), 0, {low, high})
    ELSE IF GetItem(a, low) < GetItem(a, high)
         THEN Effect(a, Pair(GetItem(a, low), GetItem(a, high)), 1, {low, high})
         ELSE Effect(a, Pair(GetItem(a, high), GetItem(a, low)), 1, {low, high})

\* mid rounded up instead of down.
MidRoundUp(low, high) == (low + high + 1) \div 2

MidHigh(low, high) == high

MidLow(low, high) == low

\* mid = (low + high) // 2, floor division.
Mid(low, high) == (low + high) \div 2

CombineLeftOnly(a, l, r) == Effect(a, Pair(l.mn, Max2(l.mx, r.mx)), 2, {})

CombineThree(a, l, r) == Effect(a, Pair(Min2(l.mn, r.mn), Max2(l.mx, r.mx)), 3, {})

\* return min(left_min, right_min), max(left_max, right_max)
Combine(a, l, r) == Effect(a, Pair(Min2(l.mn, r.mn), Max2(l.mx, r.mx)), 2, {})

\* find_min_max as the function it is: what the call at nesting level depth
\* returns or raises, with the list afterwards, the comparisons made and the
\* indices subscripted on the way.
RECURSIVE FindMinMax(_, _, _, _)
FindMinMax(a, low, high, depth) ==
    IF low = high THEN BaseOne(a, low)
    ELSE IF high = low + 1 THEN BaseTwo(a, low, high)
    ELSE IF depth >= RecursionLimit THEN Effect(a, Raised("RecursionError"), 0, {})
    ELSE LET l == FindMinMax(a, low, Mid(low, high), depth + 1) IN
         IF l.ret.kind # "pair" THEN l
         ELSE LET r == FindMinMax(l.arr, Mid(low, high) + 1, high, depth + 1) IN
              IF r.ret.kind # "pair"
              THEN Effect(r.arr, r.ret, l.cmp + r.cmp, l.reads \cup r.reads)
              ELSE LET c == Combine(r.arr, l.ret, r.ret) IN
                   Effect(c.arr, c.ret, l.cmp + r.cmp + c.cmp,
                          l.reads \cup r.reads \cup c.reads)

\* ------------------------------------------------------------------- frames
Frame(low, high) == [low |-> low, high |-> high, pc |-> "start", left |-> NoValue]

Top == stack[Len(stack)]
Pop(s) == SubSeq(s, 1, Len(s) - 1)
SetTop(s, f) == [s EXCEPT ![Len(s)] = f]

\* The frame on top ends with effect e: an exception unwinds every frame to
\* the caller; a value goes to the frame below, or to the caller's
\* "minimum, maximum = ..." when the ending frame is the top-level call.
Deliver(e) ==
    /\ arr' = e.arr
    /\ comparisons' = comparisons + e.cmp
    /\ reads' = reads \cup e.reads
    /\ IF e.ret.kind # "pair"
       THEN stack' = <<>> /\ ret' = NoValue /\ result' = e.ret
       ELSE IF Len(stack) = 1
            THEN stack' = <<>> /\ ret' = NoValue /\ result' = e.ret
            ELSE stack' = Pop(stack) /\ ret' = e.ret /\ result' = result
    /\ UNCHANGED <<args, hist>>
    /\ UNCHANGED others

\* A call made from the frame on top, which then waits at pc w: the callee's
\* frame is pushed unless the stack is already RecursionLimit frames deep.
Invoke(w, low, high, left) ==
    /\ IF Len(stack) >= RecursionLimit
       THEN stack' = <<>> /\ result' = Raised("RecursionError")
       ELSE /\ stack' = Append(SetTop(stack, [Top EXCEPT !.pc = w, !.left = left]),
                               Frame(low, high))
            /\ result' = result
    /\ ret' = NoValue
    /\ UNCHANGED <<arr, args, comparisons, reads, hist>>
    /\ UNCHANGED others

\* ------------------------------------------------------------------ actions
\* Arguments a caller may pass: every index of the list, one past its end,
\* and -1 (the last element, by wrapping).
Idx(a) == -1..Len(a)

\* The caller calls find_min_max(arr, low, high); hist.other notes a call with
\* other arguments made after the kept one.
Call(low, high) ==
    /\ stack = <<>>
    /\ stack' = <<Frame(low, high)>>
    /\ args' = [low |-> low, high |-> high]
    /\ ret' = NoValue
    /\ result' = NoValue
    /\ comparisons' = 0
    /\ reads' = {}
    /\ hist' = IF hist.set /\ <<low, high>> # <<hist.low, hist.high>>
               THEN [hist EXCEPT !.other = TRUE]
               ELSE hist
    /\ UNCHANGED arr
    /\ UNCHANGED others

Entering == stack # <<>> /\ Top.pc = "start" /\ ret.kind = "none"

\* Base case, one element.
EnterOne ==
    /\ Entering
    /\ Top.low = Top.high
    /\ Deliver(BaseOne(arr, Top.low))

\* Base case, two elements.
EnterTwo ==
    /\ Entering
    /\ Top.low # Top.high
    /\ Top.high = Top.low + 1
    /\ Deliver(BaseTwo(arr, Top.low, Top.high))

\* Recursive case: compute mid and call find_min_max(arr, low, mid).
EnterSplit ==
    /\ Entering
    /\ Top.low # Top.high
    /\ Top.high # Top.low + 1
    /\ Invoke("left", Top.low, Mid(Top.low, Top.high), NoValue)

\* The left call returned: bind left_min, left_max and call
\* find_min_max(arr, mid + 1, high).
GotLeft ==
    /\ stack # <<>>
    /\ Top.pc = "left"
    /\ ret.kind = "pair"
    /\ Invoke("right", Mid(Top.low, Top.high) + 1, Top.high, ret)

\* The right call returned: bind right_min, right_max, combine and return.
GotRight ==
    /\ stack # <<>>
    /\ Top.pc = "right"
    /\ ret.kind = "pair"
    /\ Deliver(Combine(arr, Top.left, ret))

\* The caller keeps the outcome of a completed call for later comparison.
Remember ==
    /\ stack = <<>>
    /\ result.kind # "none"
    /\ ~hist.set
    /\ hist' = [set |-> TRUE, low |-> args.low, high |-> args.high, res |-> result,
                other |-> FALSE]
    /\ UNCHANGED <<arr, args, stack, ret, result, comparisons, reads>>
    /\ UNCHANGED others

Run == EnterOne \/ EnterTwo \/ EnterSplit \/ GotLeft \/ GotRight

\* ----------------------------------------------------------- specifications
InitCalls(S) ==
    /\ arr \in S
    /\ args = [low |-> 0, high |-> 0]
    /\ stack = <<>>
    /\ ret = NoValue
    /\ result = NoValue
    /\ comparisons = 0
    /\ reads = {}
    /\ hist = NoHist

InitWith(S) ==
    /\ InitCalls(S)
    /\ pure = Off
    /\ par = Off
    /\ iter = Off
    /\ AppsOff

Init == InitWith(SeqsUpTo(MaxLen) \cup {DemoArr})

InitRepeat == InitWith(SeqsUpTo(MaxLenRepeat))

InitFair == InitWith(SeqsUpTo(MaxLenFair))

Next ==
    \/ \E low \in Idx(arr), high \in Idx(arr) : Call(low, high)
    \/ EnterOne
    \/ EnterTwo
    \/ EnterSplit
    \/ GotLeft
    \/ GotRight

NextRepeat ==
    \/ \E low \in Idx(arr), high \in Idx(arr) : Call(low, high)
    \/ EnterOne
    \/ EnterTwo
    \/ EnterSplit
    \/ GotLeft
    \/ GotRight
    \/ Remember

\* Single calls, one after another, on every generated sequence.
Spec == Init /\ [][Next]_vars

\* Calls whose outcome the caller may keep and compare with later ones.
SpecRepeat == InitRepeat /\ [][NextRepeat]_vars

\* The interpreter keeps executing a call that has been started.
SpecFair == InitFair /\ [][Next]_vars /\ WF_vars(Run)

\* ------------------------------------------------------------------- claims
Done == stack = <<>> /\ result.kind # "none"

\* 0 <= low <= high <= len(a) - 1
ValidRange(a, low, high) == 0 <= low /\ low <= high /\ high <= Len(a) - 1

ValidCall == ValidRange(arr, args.low, args.high)

Size == args.high - args.low + 1

\* The trusted reference: one left-to-right scan of a[low..high] that tracks
\* the smallest and the largest element seen so far.
RECURSIVE ScanFrom(_, _, _, _, _)
ScanFrom(a, i, high, mn, mx) ==
    IF i > high THEN Pair(mn, mx)
    ELSE ScanFrom(a, i + 1, high,
                  IF a[i + 1] < mn THEN a[i + 1] ELSE mn,
                  IF a[i + 1] > mx THEN a[i + 1] ELSE mx)

LinearScan(a, low, high) == ScanFrom(a, low + 1, high, a[low + 1], a[low + 1])

\* C1: on every valid range the call returns exactly the pair a linear scan
\* of the same slice computes, and (1, 89) for the demo array over (0, 11).
C1_MatchesLinearScan ==
    /\ (Done /\ ValidCall) => result = LinearScan(arr, args.low, args.high)
    /\ (Done /\ arr = DemoArr /\ args = [low |-> 0, high |-> 11]) => result = Pair(1, 89)

C1_Witness ==
    Done /\ arr = DemoArr /\ args = [low |-> 0, high |-> 11] /\ result = Pair(1, 89)

\* C2: on every valid range the returned pair has mn <= mx, both are values
\* stored at indices inside [low, high], and both equal sequence[low] when
\* low = high.
C2_PairWellFormed ==
    (Done /\ ValidCall) =>
        /\ result.kind = "pair"
        /\ result.mn <= result.mx
        /\ \E i \in args.low..args.high : arr[i + 1] = result.mn
        /\ \E j \in args.low..args.high : arr[j + 1] = result.mx
        /\ (args.low = args.high =>
                result.mn = arr[args.low + 1] /\ result.mx = arr[args.low + 1])

C2_Witness ==
    /\ Done /\ ValidCall /\ Size >= 3 /\ result.kind = "pair"
    /\ result.mn < result.mx
    /\ arr[args.low + 1] # result.mn /\ arr[args.low + 1] # result.mx

\* C3: a call with low > high fails with InvalidRangeError and never returns
\* a pair.
C3_InvertedRangeIsInvalidRangeError ==
    (Done /\ args.low > args.high) => result.kind = "InvalidRangeError"

\* C4: a call with low <= high and low or high outside [0, len-1] fails with
\* InvalidRangeError and never returns a pair computed from other positions.
C4_OutOfBoundsIsInvalidRangeError ==
    (Done /\ args.low <= args.high /\ ~ValidCall /\ Len(arr) > 0)
        => result.kind = "InvalidRangeError"

\* C5: a call on an empty sequence fails with EmptySequenceError, whatever
\* low and high are.
C5_EmptyIsEmptySequenceError ==
    (Done /\ Len(arr) = 0) => result.kind = "EmptySequenceError"

\* The count as a function of the number of elements alone.
RECURSIVE CountFor(_)
CountFor(n) ==
    IF n <= 1 THEN 0
    ELSE IF n = 2 THEN 1
    ELSE CountFor(n - n \div 2) + CountFor(n \div 2) + 2

\* C6: on every valid range of n elements the number of element comparisons
\* is a function of n alone and never exceeds 2n - 2.
C6_CountDependsOnSizeOnly ==
    (Done /\ ValidCall) =>
        /\ comparisons = CountFor(Size)
        /\ comparisons <= 2 * Size - 2

C6_Witness == Done /\ ValidCall /\ Size = 5 /\ comparisons = 6 /\ arr # DemoArr

\* C7 as stated: on every valid range of n >= 2 elements the number of
\* element comparisons is at most ceil(3n/2) - 2.
C7_AtMostCeilThreeHalves ==
    (Done /\ ValidCall /\ Size >= 2) => comparisons <= (3 * Size + 1) \div 2 - 2

\* C7 as amended: on every valid range of n >= 2 elements the number of
\* element comparisons is at most floor(5n/3) - 2.
C7_AtMostFiveThirds ==
    (Done /\ ValidCall /\ Size >= 2) => comparisons <= (5 * Size) \div 3 - 2

C7_Witness ==
    /\ Done /\ ValidCall /\ Size = 6
    /\ comparisons = 8
    /\ comparisons > (3 * Size + 1) \div 2 - 2

\* C8: no step of a call writes to the sequence: every element, inside and
\* outside [low, high], is the same after the step as before it.
C8_NeverWrites == [][arr' = arr]_vars

C8_Witness ==
    /\ ValidCall /\ Len(stack) >= 2 /\ Top.pc = "right"
    /\ comparisons >= 1 /\ reads # {}
    /\ args.low > 0 /\ args.high < Len(arr) - 1

\* C9: a call with the same (low, high) as an earlier completed call returns
\* the same outcome, whatever calls with other arguments came in between.
C9_RepeatedCallsAgree ==
    (Done /\ hist.set /\ args.low = hist.low /\ args.high = hist.high)
        => result = hist.res

C9_Witness ==
    /\ Done /\ hist.set /\ hist.other
    /\ args.low = hist.low /\ args.high = hist.high
    /\ ValidCall /\ Size >= 3
    /\ result.kind = "pair" /\ result.mn < result.mx

\* Every frame below the top-level one is on a non-empty range that lies
\* inside its caller's range and is strictly smaller.
Shrinks ==
    \A i \in 2..Len(stack) :
        /\ stack[i].low <= stack[i].high
        /\ stack[i - 1].low <= stack[i].low
        /\ stack[i].high <= stack[i - 1].high
        /\ stack[i].high - stack[i].low < stack[i - 1].high - stack[i - 1].low

\* A frame makes recursive calls only when its range holds more than two
\* elements, so a frame on one or two elements is a base case.
EndsInBaseCase ==
    \A i \in 1..Len(stack) :
        stack[i].pc # "start" => stack[i].high - stack[i].low >= 2

\* C10: every call on a valid range terminates: each recursive call is on a
\* strictly smaller non-empty range, every chain of calls ends in a base
\* case, and the call returns a pair to its caller.
C10_ValidCallTerminates ==
    /\ [](ValidCall => (Shrinks /\ EndsInBaseCase))
    /\ [](ValidCall => result.kind \in {"none", "pair"})
    /\ (stack # <<>> /\ ValidCall) ~> (stack = <<>> /\ result.kind = "pair")

C10_Witness ==
    /\ ValidCall /\ Len(stack) = 3
    /\ Top.pc = "start" /\ Top.low = Top.high
    /\ stack[2].pc = "right" /\ stack[1].pc = "left"

\* The frame-by-frame execution and the function agree on every call.
StepsMatchFunction ==
    Done => LET e == FindMinMax(arr, args.low, args.high, 1) IN
            /\ result = e.ret
            /\ (result.kind = "pair" => comparisons = e.cmp /\ reads = e.reads)

\* ceil(log2(n)) for n >= 1.
RECURSIVE CeilLog2(_)
CeilLog2(n) == IF n <= 1 THEN 0 ELSE 1 + CeilLog2((n + 1) \div 2)

\* C11: during a call on a valid range of n elements the number of nested
\* recursive levels below the top-level call never exceeds ceil(log2(n)).
C11_DepthLogarithmic ==
    (stack # <<>> /\ ValidCall) => Len(stack) - 1 <= CeilLog2(Size)

C11_Witness ==
    /\ ValidCall /\ arr = DemoArr /\ Size = 12
    /\ Len(stack) - 1 = 3 /\ Top.pc = "start"

\* C15: on a two-element range the call returns (smaller, larger) for either
\* order, (v, v) for equal elements, with exactly one element comparison
\* and no recursive call.
C15_TwoElementRange ==
    (ValidCall /\ Size = 2) =>
        /\ Len(stack) <= 1
        /\ Done =>
            /\ comparisons = 1
            /\ LET x == arr[args.low + 1]
                   y == arr[args.high + 1]
               IN  result = IF x <= y THEN Pair(x, y) ELSE Pair(y, x)

C15_Witness ==
    /\ Done /\ ValidCall /\ Size = 2
    /\ arr[args.low + 1] > arr[args.high + 1]
    /\ result = Pair(arr[args.high + 1], arr[args.low + 1])

\* ------------------------------------------- two sequences over one range
\* Longest generated sequence of a pair.
MaxLenPair == 3

\* The sequence a with every element outside [low, high] replaced by v.
Outside(a, low, high, v) ==
    [i \in 1..Len(a) |-> IF low <= i - 1 /\ i - 1 <= high THEN a[i] ELSE v]

\* find_min_max(a, low, high) and find_min_max(b, low, high) are called on two
\* sequences; ra and rb are what the two calls return.
InitPure ==
    /\ InitCalls({<<>>})
    /\ \E a \in SeqsUpTo(MaxLenPair) \cup {DemoArr},
          b \in SeqsUpTo(MaxLenPair) \cup {Outside(DemoArr, 2, 5, 0)},
          low \in -1..5, high \in -1..5 :
            pure = [on |-> TRUE, a |-> a, b |-> b, low |-> low, high |-> high,
                    ra |-> NoValue, rb |-> NoValue]
    /\ par = Off
    /\ iter = Off
    /\ AppsOff

CallFirst ==
    /\ pure.ra.kind = "none"
    /\ pure' = [pure EXCEPT !.ra = FindMinMax(pure.a, pure.low, pure.high, 1).ret]
    /\ UNCHANGED <<mmVars, par, iter, apps>>

CallSecond ==
    /\ pure.rb.kind = "none"
    /\ pure' = [pure EXCEPT !.rb = FindMinMax(pure.b, pure.low, pure.high, 1).ret]
    /\ UNCHANGED <<mmVars, par, iter, apps>>

NextPure ==
    \/ CallFirst
    \/ CallSecond

SpecPure == InitPure /\ [][NextPure]_vars

\* The two sequences hold the same elements at every index of [low, high].
AgreeOn(a, b, low, high) == \A i \in low..high : a[i + 1] = b[i + 1]

\* C14: the result depends only on the elements at indices low..high: two
\* sequences that agree there and differ elsewhere give the same pair, and
\* range (2, 5) of the demo array gives (7, 89).
C14_DependsOnRangeOnly ==
    /\ ( /\ pure.ra.kind # "none" /\ pure.rb.kind # "none"
         /\ ValidRange(pure.a, pure.low, pure.high)
         /\ ValidRange(pure.b, pure.low, pure.high)
         /\ AgreeOn(pure.a, pure.b, pure.low, pure.high) )
       => (pure.ra = pure.rb /\ pure.ra.kind = "pair")
    /\ (pure.ra.kind # "none" /\ pure.a = DemoArr /\ pure.low = 2 /\ pure.high = 5)
       => pure.ra = Pair(7, 89)

C14_Witness ==
    /\ pure.a = DemoArr /\ pure.b # pure.a /\ Len(pure.b) = Len(pure.a)
    /\ pure.low = 2 /\ pure.high = 5
    /\ AgreeOn(pure.a, pure.b, 2, 5)
    /\ pure.ra = Pair(7, 89) /\ pure.rb = Pair(7, 89)

\* ------------------------------------ the two recursive calls side by side
\* Longest sequence of the side-by-side and the work-stack specifications.
MaxLenPar == 5

\* A call of find_min_max running on a stack of its own: its frames, the
\* value in flight between two of them, and what its caller receives.
Thread(s) == [stack |-> s, ret |-> NoValue, result |-> NoValue]

ThreadTop(t) == t.stack[Len(t.stack)]

\* The frame on top of t ends with effect e (as Deliver).
ThreadEnd(t, e) ==
    IF e.ret.kind # "pair" \/ Len(t.stack) = 1
    THEN [arr |-> e.arr, t |-> [stack |-> <<>>, ret |-> NoValue, result |-> e.ret]]
    ELSE [arr |-> e.arr, t |-> [stack |-> Pop(t.stack), ret |-> e.ret, result |-> t.result]]

\* The frame on top of t calls find_min_max(arr, low, high) and waits at pc w
\* (as Invoke); the frames of t lie above the frame of the call that split.
ThreadCall(a, t, w, low, high, left) ==
    IF Len(t.stack) + 1 >= RecursionLimit
    THEN [arr |-> a, t |-> [stack |-> <<>>, ret |-> NoValue,
                            result |-> Raised("RecursionError")]]
    ELSE [arr |-> a,
          t |-> [stack |-> Append(SetTop(t.stack, [ThreadTop(t) EXCEPT !.pc = w, !.left = left]),
                                  Frame(low, high)),
                 ret |-> NoValue, result |-> t.result]]

\* One step of the call t on the list a: the list and the call afterwards.
ThreadStep(a, t) ==
    LET f == ThreadTop(t) IN
    IF f.pc = "start"
    THEN IF f.low = f.high THEN ThreadEnd(t, BaseOne(a, f.low))
         ELSE IF f.high = f.low + 1 THEN ThreadEnd(t, BaseTwo(a, f.low, f.high))
         ELSE ThreadCall(a, t, "left", f.low, Mid(f.low, f.high), NoValue)
    ELSE IF f.pc = "left"
    THEN ThreadCall(a, t, "right", Mid(f.low, f.high) + 1, f.high, t.ret)
    ELSE ThreadEnd(t, Combine(a, f.left, t.ret))

\* A call find_min_max(a, low, high) in its recursive case.
InitPar ==
    /\ InitCalls({<<>>})
    /\ pure = Off
    /\ iter = Off
    /\ AppsOff
    /\ \E a \in SeqsUpTo(MaxLenPar) \ {<<>>} :
       \E low \in 0..Len(a) - 1, high \in 0..Len(a) - 1 :
            par = [on |-> TRUE, a0 |-> a, a |-> a, low |-> low, high |-> high,
                   phase |-> "new", l |-> Thread(<<>>), r |-> Thread(<<>>),
                   out |-> NoValue]

\* The call reaches its recursive case and starts both recursive calls.
Fork ==
    /\ par.phase = "new"
    /\ par.low # par.high
    /\ par.high # par.low + 1
    /\ par' = [par EXCEPT
                 !.phase = "running",
                 !.l = Thread(<<Frame(par.low, Mid(par.low, par.high))>>),
                 !.r = Thread(<<Frame(Mid(par.low, par.high) + 1, par.high)>>)]
    /\ UNCHANGED <<mmVars, pure, iter, apps>>

\* The left call takes a step.
StepLeft ==
    /\ par.phase = "running"
    /\ par.l.stack # <<>>
    /\ LET n == ThreadStep(par.a, par.l) IN
       par' = [par EXCEPT !.a = n.arr, !.l = n.t]
    /\ UNCHANGED <<mmVars, pure, iter, apps>>

\* The right call takes a step.
StepRight ==
    /\ par.phase = "running"
    /\ par.r.stack # <<>>
    /\ LET n == ThreadStep(par.a, par.r) IN
       par' = [par EXCEPT !.a = n.arr, !.r = n.t]
    /\ UNCHANGED <<mmVars, pure, iter, apps>>

\* Both calls have ended: the caller combines what they returned, or the
\* exception one of them raised reaches its own caller.
Join ==
    /\ par.phase = "running"
    /\ par.l.stack = <<>> /\ par.r.stack = <<>>
    /\ LET e == IF par.l.result.kind # "pair" THEN Effect(par.a, par.l.result, 0, {})
                ELSE IF par.r.result.kind # "pair" THEN Effect(par.a, par.r.result, 0, {})
                ELSE Combine(par.a, par.l.result, par.r.result)
       IN par' = [par EXCEPT !.phase = "done", !.a = e.arr, !.out = e.ret]
    /\ UNCHANGED <<mmVars, pure, iter, apps>>

NextPar ==
    \/ Fork
    \/ StepLeft
    \/ StepRight
    \/ Join

SpecPar == InitPar /\ [][NextPar]_vars

\* C12: whatever the interleaving of the steps of the left and the right
\* recursive call, the combined result is the one the sequential
\* left-then-right execution returns.
C12_AnyInterleavingSameResult ==
    (par.phase = "done" /\ ValidRange(par.a0, par.low, par.high))
        => par.out = FindMinMax(par.a0, par.low, par.high, 1).ret

\* The right call has ended while the left call has not yet read anything.
C12_Witness ==
    /\ par.phase = "running" /\ ValidRange(par.a0, par.low, par.high)
    /\ par.high - par.low + 1 = 5
    /\ par.r.stack = <<>> /\ par.r.result.kind = "pair"
    /\ Len(par.l.stack) = 2 /\ par.l.stack[1].pc = "left"
    /\ par.l.result.kind = "none"

\* ------------------------------------------------ the work-stack version
\* The iterative version of the design notes: a stack of (low, high) ranges
\* still to do and the (min, max) of the ranges already done.
InitIter ==
    /\ InitCalls({<<>>})
    /\ pure = Off
    /\ par = Off
    /\ AppsOff
    /\ \E a \in (SeqsUpTo(MaxLenPar) \ {<<>>}) \cup {DemoArr} :
       \E low \in 0..Len(a) - 1 :
       \E high \in low..Len(a) - 1 :
            iter = [on |-> TRUE, a |-> a, low |-> low, high |-> high,
                    work |-> <<[low |-> low, high |-> high]>>,
                    acc |-> NoValue, out |-> NoValue]

WorkTop == iter.work[Len(iter.work)]

\* The pair of a finished range joins the running (min, max).
Accumulate(acc, p) ==
    IF acc.kind = "none" THEN p
    ELSE Pair(Min2(acc.mn, p.mn), Max2(acc.mx, p.mx))

\* The range on top is a base case: it is done directly.
IterBase ==
    /\ iter.work # <<>>
    /\ WorkTop.high <= WorkTop.low + 1
    /\ LET e == IF WorkTop.low = WorkTop.high
                THEN BaseOne(iter.a, WorkTop.low)
                ELSE BaseTwo(iter.a, WorkTop.low, WorkTop.high)
       IN iter' = [iter EXCEPT !.a = e.arr,
                               !.work = Pop(iter.work),
                               !.acc = Accumulate(iter.acc, e.ret)]
    /\ UNCHANGED <<mmVars, pure, par, apps>>

\* The range on top holds more than two elements: its two halves replace it.
IterSplit ==
    /\ iter.work # <<>>
    /\ WorkTop.high > WorkTop.low + 1
    /\ LET m == Mid(WorkTop.low, WorkTop.high) IN
       iter' = [iter EXCEPT !.work = Pop(iter.work)
                                \o <<[low |-> m + 1, high |-> WorkTop.high],
                                     [low |-> WorkTop.low, high |-> m]>>]
    /\ UNCHANGED <<mmVars, pure, par, apps>>

\* No range is left: the running (min, max) is returned.
IterReturn ==
    /\ iter.work = <<>>
    /\ iter.out.kind = "none"
    /\ iter' = [iter EXCEPT !.out = iter.acc]
    /\ UNCHANGED <<mmVars, pure, par, apps>>

NextIter ==
    \/ IterBase
    \/ IterSplit
    \/ IterReturn

SpecIter == InitIter /\ [][NextIter]_vars

\* C13: for every sequence and valid range the work-stack version returns
\* the pair the recursive find_min_max returns.
C13_WorkStackSameResult ==
    (iter.out.kind # "none" /\ ValidRange(iter.a, iter.low, iter.high))
        => iter.out = FindMinMax(iter.a, iter.low, iter.high, 1).ret

C13_Witness ==
    /\ iter.a = DemoArr /\ iter.low = 0 /\ iter.high = 11
    /\ iter.out = Pair(1, 89)
    /\ FindMinMax(iter.a, 0, 11, 1).ret = Pair(1, 89)

\* =================================================================
\* The loan approval demo, src/Lab 22/22-5/22-5.py.
\*
\* A Python float is a fixed-point integer or NaN. Units: income and
\* loan_amount in thousands of INR, dti in hundredths, credit_score,
\* employment_years and age in units; a normalised value in 1/Scale;
\* a weight, the bias and the threshold in hundredths; a contribution and
\* the score in 1/(100 * Scale).

\* Resolution of a normalised value.
Scale == 10000

Num(v) == [nan |-> FALSE, v |-> v]
NaN == [nan |-> TRUE, v |-> 0]

\* x < y and x >= y of two floats: every comparison with NaN is False.
Lt(x, y) == ~x.nan /\ ~y.nan /\ x.v < y.v
Ge(x, y) == ~x.nan /\ ~y.nan /\ x.v >= y.v

\* min(a, b) and max(a, b) of Python: the first argument unless the second
\* one compares smaller (larger).
PyMin(a, b) == IF Lt(b, a) THEN b ELSE a
PyMax(a, b) == IF Lt(a, b) THEN b ELSE a

Plus(x, y) == IF x.nan \/ y.nan THEN NaN ELSE Num(x.v + y.v)
Times(x, w) == IF x.nan THEN NaN ELSE Num(x.v * w)
Abs(x) == IF x.nan THEN NaN ELSE Num(IF x.v < 0 THEN -x.v ELSE x.v)

clamp(v, lo, hi) == PyMax(lo, PyMin(hi, v))

norm(v, lo, hi) ==
    IF hi.v = lo.v THEN Num(0)
    ELSE LET c == clamp(v, lo, hi) IN
         IF c.nan THEN NaN ELSE Num(((c.v - lo.v) * Scale) \div (hi.v - lo.v))

\* self.weights, in the order of the dict.
weights == << <<"income", 28>>, <<"loan_amount", -24>>, <<"credit_score", 30>>,
              <<"dti", -22>>, <<"employment_years", 18>> >>

\* self.ranges.
ranges == [income |-> <<10, 300>>, loan_amount |-> <<50, 5000>>,
           credit_score |-> <<300, 900>>, dti |-> <<0, 100>>,
           employment_years |-> <<0, 40>>, age |-> <<18, 75>>]

bias == 48

threshold == 50

\* The keys compute normalises.
NormKeys == <<"income", "loan_amount", "credit_score", "dti", "employment_years">>

Fields == DOMAIN ranges

Lo(k) == Num(ranges[k][1])
Hi(k) == Num(ranges[k][2])

\* The score 0.0 and the score 1.0.
Zero == Num(0)
One == Num(100 * Scale)

\* features[k] read under the key of another feature.
FeatureWrongKey(features, k) ==
    IF k = "employment_years" THEN features["age"] ELSE features[k]

\* float(features[k]).
Feature(features, k) == features[k]

Normalized(features) ==
    [k \in {NormKeys[i] : i \in DOMAIN NormKeys} |->
        norm(Feature(features, k), Lo(k), Hi(k))]

\* contribs before the sort: (k, n[k], w, c) for every item of weights.
Contribs(n) ==
    [i \in DOMAIN weights |->
        [name |-> weights[i][1], n |-> n[weights[i][1]], w |-> weights[i][2],
         c |-> Times(n[weights[i][1]], weights[i][2])]]

\* score after the first i passes of the loop over the weights.
RECURSIVE ScoreAfter(_, _)
ScoreAfter(cs, i) ==
    IF i = 0 THEN Num(bias * Scale) ELSE Plus(ScoreAfter(cs, i - 1), cs[i].c)

\* list.sort(key=abs(contribution), reverse=True): stable, so x goes behind
\* every element that does not compare smaller.
SortInsert(s, x) ==
    LET k == Cardinality({i \in DOMAIN s : ~Lt(Abs(s[i].c), Abs(x.c))}) IN
    SubSeq(s, 1, k) \o <<x>> \o SubSeq(s, k + 1, Len(s))

RECURSIVE SortPrefix(_, _)
SortPrefix(cs, i) ==
    IF i = 0 THEN <<>> ELSE SortInsert(SortPrefix(cs, i - 1), cs[i])

\* The score left as the loop made it.
FinalScoreUnclamped(raw) == raw

FinalScore(raw) == clamp(raw, Zero, One)

compute(features) ==
    LET n == Normalized(features)
        cs == Contribs(n)
        score == FinalScore(ScoreAfter(cs, Len(cs)))
    IN [score |-> score,
        decision |-> Ge(score, Num(threshold * Scale)),
        contribs |-> SortPrefix(cs, Len(cs)),
        n |-> n]

\* ------------------------------------------------------------ LoanAIApp
\* What an entry box holds: a numeral, the text "nan", or a text that
\* float() rejects.
Numeral(v) == [kind |-> "num", v |-> v]
NanText == [kind |-> "nan", v |-> 0]
Junk == [kind |-> "text", v |-> 0]

\* float(s): ValueError unless Parses(s).
Parses(s) == s.kind # "text"
Float(s) == IF s.kind = "nan" THEN NaN ELSE Num(s.v)

\* The defaults of the entry boxes.
Defaults == [income |-> 75, loan_amount |-> 400, credit_score |-> 720,
             dti |-> 35, employment_years |-> 4, age |-> 29]

\* Numeric texts typed into box k: below the range, the default, above the
\* range, and "nan".
Numerals(k) ==
    {Numeral(ranges[k][1] - 1), Numeral(Defaults[k]), Numeral(ranges[k][2] + 1),
     NanText}

Entries(k) == Numerals(k) \cup {Junk}

NoResult == [set |-> FALSE]

\* self.result_label and self.contrib_text after construction.
NoLabel == [decision |-> "No decision yet.", score |-> 0]
NoRows == <<>>

\* "{x:.2f}" of a normalised value, "{x:.2f}" of a score and "{x:+.3f}" of a
\* contribution: hundredths, hundredths and thousandths, rounded.
Fmt2n(x) == (2 * 100 * x.v + Scale) \div (2 * Scale)
Fmt2(x) == (2 * x.v + Scale) \div (2 * Scale)
Fmt3(x) == (2 * 10 * x.v + Scale) \div (2 * Scale)

\* The text run_decision puts into result_label.
LabelOf(r) ==
    [decision |-> IF r.decision THEN "APPROVED" ELSE "DECLINED", score |-> Fmt2(r.score)]

\* The rows _show_contribs writes.
RowsOf(contribs) ==
    [i \in DOMAIN contribs |->
        [name |-> contribs[i].name, n |-> Fmt2n(contribs[i].n),
         w |-> contribs[i].w, c |-> Fmt3(contribs[i].c)]]

get_features(form) ==
    IF \E k \in Fields : ~Parses(form[k]) THEN [ok |-> FALSE]
    ELSE [ok |-> TRUE,
          f |-> [k \in Fields |-> clamp(Float(form[k]), Lo(k), Hi(k))]]

InitLoan ==
    /\ InitCalls({<<>>})
    /\ pure = Off
    /\ par = Off
    /\ iter = Off
    /\ scan = Off
    /\ db = Off
    /\ ecg = Off
    /\ \E a \in Numerals("income"), b \in Numerals("loan_amount"),
          c \in Numerals("credit_score"), d \in Numerals("dti"),
          e \in Numerals("employment_years"), g \in Numerals("age") :
       \E u \in {"LoanAIApp", "script"} :
          loan = [on |-> TRUE,
                  user |-> u,
                  form |-> [income |-> a, loan_amount |-> b, credit_score |-> c,
                            dti |-> d, employment_years |-> e, age |-> g],
                  last_result |-> NoResult,
                  prev_result |-> NoResult,
                  result_label |-> NoLabel,
                  contrib_text |-> NoRows,
                  dialog |-> "none",
                  direct |-> NoResult,
                  prev_direct |-> NoResult]

\* The user types s into entry box k.
Edit(k, s) ==
    /\ loan.on
    /\ loan.form[k] # s
    /\ loan' = [loan EXCEPT !.form[k] = s]
    /\ UNCHANGED <<mmVars, pure, par, iter, scan, db, ecg>>

\* On a rejected form the result label falls back to its first text.
run_decisionClearsLabel ==
    /\ loan.on
    /\ loan.user = "LoanAIApp"
    /\ LET g == get_features(loan.form) IN
       IF ~g.ok
       THEN loan' = [loan EXCEPT !.dialog = "Invalid input", !.result_label = NoLabel]
       ELSE LET r == compute(g.f) IN
            loan' = [loan EXCEPT
                        !.last_result = [set |-> TRUE, score |-> r.score,
                                         decision |-> r.decision,
                                         contribs |-> r.contribs, n |-> r.n,
                                         f |-> g.f],
                        !.prev_result = loan.last_result,
                        !.result_label = LabelOf(r),
                        !.contrib_text = RowsOf(r.contribs),
                        !.dialog = "none"]
    /\ UNCHANGED <<mmVars, pure, par, iter, scan, db, ecg>>

\* The "Generate Decision" button of the window. prev_result keeps the
\* last_result that the assignment replaces.
run_decision ==
    /\ loan.on
    /\ loan.user = "LoanAIApp"
    /\ LET g == get_features(loan.form) IN
       IF ~g.ok
       THEN loan' = [loan EXCEPT !.dialog = "Invalid input"]
       ELSE LET r == compute(g.f) IN
            loan' = [loan EXCEPT
                        !.last_result = [set |-> TRUE, score |-> r.score,
                                         decision |-> r.decision,
                                         contribs |-> r.contribs, n |-> r.n,
                                         f |-> g.f],
                        !.prev_result = loan.last_result,
                        !.result_label = LabelOf(r),
                        !.contrib_text = RowsOf(r.contribs),
                        !.dialog = "none"]
    /\ UNCHANGED <<mmVars, pure, par, iter, scan, db, ecg>>

\* A script that calls model.compute itself passes the floats as they were
\* entered, with no clamp before the call. prev_direct keeps the call before.
CallCompute ==
    /\ loan.on
    /\ loan.user = "script"
    /\ \A k \in Fields : Parses(loan.form[k])
    /\ LET f == [k \in Fields |-> Float(loan.form[k])] IN
       loan' = [loan EXCEPT !.direct = [set |-> TRUE, f |-> f, out |-> compute(f)],
                            !.prev_direct = loan.direct]
    /\ UNCHANGED <<mmVars, pure, par, iter, scan, db, ecg>>

NextLoan ==
    \/ \E s \in Entries("age") : Edit("age", s)
    \/ run_decision
    \/ CallCompute

SpecLoan == InitLoan /\ [][NextLoan]_vars

\* The two feature sets agree on everything but age.
AgreeButAge(f, g) == \A k \in Fields \ {"age"} : f[k] = g[k]

\* C16: compute does not use age: two calls whose feature sets agree on
\* income, loan_amount, credit_score, dti and employment_years return the
\* same score, decision, contribution list (and normalised values), and so do
\* two runs of run_decision.
C16_AgeNotUsed ==
    /\ (loan.direct.set /\ loan.prev_direct.set
            /\ AgreeButAge(loan.direct.f, loan.prev_direct.f))
         => loan.direct.out = loan.prev_direct.out
    /\ (loan.last_result.set /\ loan.prev_result.set
            /\ AgreeButAge(loan.last_result.f, loan.prev_result.f))
         => /\ loan.last_result.score = loan.prev_result.score
            /\ loan.last_result.decision = loan.prev_result.decision
            /\ loan.last_result.contribs = loan.prev_result.contribs

C16_Witness ==
    /\ loan.last_result.set /\ loan.prev_result.set
    /\ loan.last_result.f["age"] = Num(ranges["age"][2])
    /\ loan.prev_result.f["age"] = Num(Defaults["age"])
    /\ AgreeButAge(loan.last_result.f, loan.prev_result.f)
    /\ loan.last_result.score = loan.prev_result.score
    /\ loan.last_result.contribs = loan.prev_result.contribs
    /\ loan.last_result.decision /\ loan.prev_result.decision

\* x brought into lo..hi.
Within(lo, x, hi) == IF x < lo THEN lo ELSE IF x > hi THEN hi ELSE x

\* The weighted sum of the first i normalised values.
RECURSIVE WeightedSum(_, _)
WeightedSum(n, i) ==
    IF i = 0 THEN 0
    ELSE WeightedSum(n, i - 1) + weights[i][2] * n[weights[i][1]].v

\* What C17 says of the result r of compute(f).
ScoreInUnitInterval(f, r) ==
    /\ ~r.score.nan
    /\ r.score.v \in 0..(100 * Scale)
    /\ \A i \in DOMAIN NormKeys :
        LET k == NormKeys[i] IN
        /\ ~r.n[k].nan
        /\ r.n[k].v \in 0..Scale
        /\ ~f[k].nan =>
              r.n[k].v = ((Within(ranges[k][1], f[k].v, ranges[k][2]) - ranges[k][1]) * Scale)
                            \div (ranges[k][2] - ranges[k][1])
    /\ r.score.v = Within(0, bias * Scale + WeightedSum(r.n, Len(weights)), 100 * Scale)
    /\ r.decision <=> (r.score.v >= threshold * Scale)

\* C17: for every numeric feature set the score of compute lies in [0, 1]:
\* each feature is normalised into [0, 1] by clamping to its range, the
\* weighted sum plus the bias 0.48 is clamped, and the decision is True
\* exactly when the score is at least the threshold 0.50.
C17_ScoreClampedThenDecided ==
    /\ loan.direct.set => ScoreInUnitInterval(loan.direct.f, loan.direct.out)
    /\ loan.last_result.set => ScoreInUnitInterval(loan.last_result.f, loan.last_result)

C17_Witness ==
    /\ loan.direct.set
    /\ loan.direct.f["income"] = Num(ranges["income"][2] + 1)
    /\ loan.direct.f["dti"] = Num(ranges["dti"][1] - 1)
    /\ bias * Scale + WeightedSum(loan.direct.out.n, Len(weights)) > 100 * Scale
    /\ loan.direct.out.score = One
    /\ loan.direct.out.decision

\* =================================================================
\* The simulated port scan, src/Lab 22/22-3/22-3.py.
\*
\* A target is a sequence of characters. The first 16 hex digits of its
\* SHA-256 digest are a function of the text that is fixed before the first
\* call (digest, chosen in Init among all functions into the seeds); the
\* generator random.Random is a linear congruential generator, drawn from as
\* Python draws: shuffle is the Fisher-Yates loop of random.shuffle.

\* Longest target typed.
MaxTargetLen == 2
\* Seeds are 0..MaxSeed.
MaxSeed == 5

Alphabet == {" ", "a"}
Targets == UNION {[1..k -> Alphabet] : k \in 0..MaxTargetLen}
Seeds == 0..MaxSeed
Depths == {1, 2, 3}
\* Readings of the clock.
Clock == {"t0", "t1"}

RECURSIVE lstrip(_)
lstrip(t) == IF t # <<>> /\ Head(t) = " " THEN lstrip(Tail(t)) ELSE t

RECURSIVE rstrip(_)
rstrip(t) ==
    IF t # <<>> /\ t[Len(t)] = " " THEN rstrip(SubSeq(t, 1, Len(t) - 1)) ELSE t

\* str(target).strip()
strip(t) == rstrip(lstrip(t))

\* The generator: its state, and one step of it.
Modulus == 65536
Multiplier == 25173
Increment == 13849
NextState(g) == (Multiplier * g + Increment) % Modulus

\* rng._randbelow(n), on which shuffle, randint and random are built.
randbelow(g, n) == [g |-> NextState(g), v |-> (NextState(g) * n) \div Modulus]

\* A generator that goes on from the state an earlier call left.
RandomShared(seed, shared) == shared

\* random.Random(seed): a new generator, its state fixed by the seed.
Random(seed, shared) == seed % Modulus

\* A swap that loses x[i].
SwapLossy(x, i, j) == [x EXCEPT ![i] = x[j]]

\* x[i], x[j] = x[j], x[i]
Swap(x, i, j) == [x EXCEPT ![i] = x[j], ![j] = x[i]]

\* for i in reversed(range(1, len(x))): j = randbelow(i + 1); swap.
\* Python's index i is position i + 1 here.
RECURSIVE ShuffleFrom(_, _, _)
ShuffleFrom(x, g, i) ==
    IF i < 1 THEN [x |-> x, g |-> g]
    ELSE LET d == randbelow(g, i + 1) IN
         ShuffleFrom(Swap(x, i + 1, d.v + 1), d.g, i - 1)

shuffle(x, g) == ShuffleFrom(x, g, Len(x) - 1)

common_ports == <<22, 80, 443, 21, 25, 110, 143, 3306, 5432, 8080, 8443, 3389>>

services ==
    (22 :> "ssh") @@ (80 :> "http") @@ (443 :> "https") @@ (21 :> "ftp")
    @@ (25 :> "smtp") @@ (110 :> "pop3") @@ (143 :> "imap") @@ (3306 :> "mysql")
    @@ (5432 :> "postgresql") @@ (8080 :> "http-alt") @@ (8443 :> "https-alt")
    @@ (3389 :> "rdp")

\* {...}.get(port, 'unknown')
ServiceOf(port) == IF port \in DOMAIN services THEN services[port] ELSE "unknown"

\* count = (seed % 6) + 2
Count(seed) == (seed % 6) + 2

\* The loop over range(count) from pass i on: one entry of simulated_ports
\* per pass, three draws each (the risk score in tenths).
RECURSIVE Probe(_, _, _, _, _)
Probe(ports, g, i, count, acc) ==
    IF i >= count THEN [open |-> acc, g |-> g]
    ELSE LET port == ports[(i % Len(ports)) + 1]
             major == randbelow(g, 4)
             minor == randbelow(major.g, 10)
             vuln == randbelow(minor.g, 100)
         IN Probe(ports, vuln.g, i + 1, count,
                  Append(acc, [port |-> port, service |-> ServiceOf(port),
                               banner |-> <<ServiceOf(port), major.v, minor.v>>,
                               vuln_score |-> vuln.v]))

\* common_ports[count:count+3]
Slice(x, from, to) ==
    SubSeq(x, (IF from < Len(x) THEN from ELSE Len(x)) + 1, IF to < Len(x) THEN to ELSE Len(x))

NoRng == 0

NoTargetProvided ==
    [text |-> "No target provided.", target |-> <<>>, ts |-> "", open |-> <<>>,
     closed |-> <<>>]

\* The report and the generator the call leaves behind. ts is the clock
\* reading of the call, dig the digest function, shared the generator left by
\* the call before.
deterministic_scan_simulation(target, depth, ts, dig, shared) ==
    LET t == strip(target) IN
    IF t = <<>> THEN [report |-> NoTargetProvided, rng |-> shared]
    ELSE LET seed == dig[t]
             rng == Random(seed, shared)
             count == Count(seed)
             first == shuffle(common_ports, rng)
             probed == Probe(first.x, first.g, 0, count, <<>>)
             second == shuffle(first.x, probed.g)
         IN [report |-> [text |-> "SIMULATED SCAN REPORT", target |-> t, ts |-> ts,
                         open |-> probed.open,
                         closed |-> Slice(second.x, count, count + 3)],
             rng |-> second.g]

NoCall == [set |-> FALSE]

\* The texts that are targets once stripped.
Stripped(ts) == {strip(t) : t \in ts} \ {<<>>}

InitScan ==
    /\ InitCalls({<<>>})
    /\ pure = Off
    /\ par = Off
    /\ iter = Off
    /\ loan = Off
    /\ db = Off
    /\ ecg = Off
    /\ \E t1 \in Targets, t2 \in Targets :
       \E dig \in [Stripped({t1, t2}) -> Seeds] :
          scan = [on |-> TRUE, digest |-> dig, typed |-> <<t1, t2>>,
                  first |-> NoCall, second |-> NoCall, rng |-> NoRng]

\* One call: the entry of scan it fills, and the generator it leaves.
Called(target, depth, ts) ==
    LET c == deterministic_scan_simulation(target, depth, ts, scan.digest, scan.rng) IN
    [set |-> TRUE, target |-> target, depth |-> depth, report |-> c.report,
     rng |-> c.rng]

ScanFirst(depth) ==
    /\ scan.on
    /\ ~scan.first.set
    /\ LET c == Called(scan.typed[1], depth, "t0") IN
       scan' = [scan EXCEPT !.first = c, !.rng = c.rng]
    /\ UNCHANGED <<mmVars, pure, par, iter, loan, db, ecg>>

ScanSecond(depth, ts) ==
    /\ scan.on
    /\ scan.first.set
    /\ ~scan.second.set
    /\ LET c == Called(scan.typed[2], depth, ts) IN
       scan' = [scan EXCEPT !.second = c, !.rng = c.rng]
    /\ UNCHANGED <<mmVars, pure, par, iter, loan, db, ecg>>

NextScan ==
    \/ \E d \in Depths : ScanFirst(d)
    \/ \E d \in Depths, ts \in Clock : ScanSecond(d, ts)

SpecScan == InitScan /\ [][NextScan]_vars

\* A report without its "Generated at" line.
Undated(r) == [r EXCEPT !.ts = ""]

\* C18: two calls whose targets are the same non-empty text once stripped
\* give the same report but for the "Generated at" line, whatever the depth
\* of either call.
C18_SameTargetSameReport ==
    (scan.first.set /\ scan.second.set
        /\ strip(scan.first.target) = strip(scan.second.target)
        /\ strip(scan.first.target) # <<>>)
      => Undated(scan.first.report) = Undated(scan.second.report)

C18_Witness ==
    /\ scan.first.set /\ scan.second.set
    /\ scan.first.target = <<"a">> /\ scan.second.target = <<" ", "a">>
    /\ scan.first.depth = 1 /\ scan.second.depth = 3
    /\ scan.first.report.ts # scan.second.report.ts
    /\ Len(scan.first.report.open) >= 2
    /\ Undated(scan.first.report) = Undated(scan.second.report)

\* What C19 says of the report r of a call with the given target.
PortListWellFormed(target, r) ==
    IF strip(target) = <<>>
    THEN r.text = "No target provided." /\ r.open = <<>> /\ r.closed = <<>>
    ELSE /\ r.text # "No target provided."
         /\ Len(r.open) \in 2..7
         /\ \A i, j \in DOMAIN r.open : i # j => r.open[i].port # r.open[j].port
         /\ \A i \in DOMAIN r.open :
              /\ \E k \in DOMAIN common_ports : common_ports[k] = r.open[i].port
              /\ r.open[i].service = services[r.open[i].port]
              /\ r.open[i].service # "unknown"
              /\ r.open[i].banner[1] = r.open[i].service

\* C19: a non-empty target gets between 2 and 7 open ports, pairwise
\* distinct, each one of the 12 common ports and labelled with its service
\* name, never 'unknown'; an empty or whitespace-only target gets "No target
\* provided." and no port list.
C19_OpenPortsWellFormed ==
    /\ scan.first.set => PortListWellFormed(scan.first.target, scan.first.report)
    /\ scan.second.set => PortListWellFormed(scan.second.target, scan.second.report)

C19_Witness ==
    /\ scan.first.set /\ scan.second.set
    /\ Len(scan.first.report.open) = 7
    /\ scan.second.target = <<" ">>
    /\ scan.second.report = NoTargetProvided

\* =================================================================
\* The hospital billing database, src/EXAM-4/hospital_billing_sql.py.
\*
\* The file hospital_billing.db is absent, an SQLite database, or something
\* SQLite does not accept. A database is its tables, the rows of each in
\* rowid order, and the AUTOINCREMENT counter of each. A connection works on
\* a copy (work) that commit writes to the file; CREATE TABLE runs outside a
\* transaction and reaches the file at once. An exception ends the function
\* that raised it.

\* External changes to the file between two runs of the program.
MaxTamper == 2

TableNames == {"Patients", "Services", "Bills"}

KeyOf == [Patients |-> "patient_id", Services |-> "service_id", Bills |-> "bill_id"]

EmptyDb ==
    [tables |-> {},
     rows |-> [t \in TableNames |-> <<>>],
     seq |-> [t \in TableNames |-> 0]]

Absent == [kind |-> "absent", db |-> EmptyDb]
Garbage == [kind |-> "garbage", db |-> EmptyDb]
SqliteFile(d) == [kind |-> "sqlite", db |-> d]

\* os.path.exists("hospital_billing.db")
Exists(file) == file.kind # "absent"

\* The old file left where it is.
RemoveSkipped(file) == file

\* os.remove("hospital_billing.db")
Remove(file) == Absent

\* sqlite3.connect: a missing file is created as an empty database.
Connect(file) ==
    LET f == IF Exists(file) THEN file ELSE SqliteFile(EmptyDb) IN
    [file |-> f, work |-> f.db, err |-> "none"]

\* cursor.execute("CREATE TABLE name ...")
CreateTable(st, name) ==
    IF st.err # "none" THEN st
    ELSE IF st.file.kind = "garbage" THEN [st EXCEPT !.err = "DatabaseError"]
    ELSE IF name \in st.work.tables THEN [st EXCEPT !.err = "OperationalError"]
    ELSE LET d == [st.work EXCEPT !.tables = @ \cup {name}] IN
         [st EXCEPT !.work = d, !.file = SqliteFile(d)]

\* The largest rowid of a table, 0 if it has no row.
RECURSIVE MaxKey(_, _, _)
MaxKey(rows, key, i) ==
    IF i = 0 THEN 0
    ELSE LET m == MaxKey(rows, key, i - 1) IN
         IF rows[i][key] > m THEN rows[i][key] ELSE m

\* INSERT of one row into a table with an AUTOINCREMENT key.
InsertRow(d, name, values) ==
    LET rows == d.rows[name]
        top == MaxKey(rows, KeyOf[name], Len(rows))
        id == (IF d.seq[name] > top THEN d.seq[name] ELSE top) + 1
    IN [d EXCEPT !.rows[name] = Append(rows, (KeyOf[name] :> id) @@ values),
                 !.seq[name] = id]

RECURSIVE InsertRows(_, _, _, _)
InsertRows(d, name, values, i) ==
    IF i = 0 THEN d ELSE InsertRow(InsertRows(d, name, values, i - 1), name, values[i])

\* cursor.executemany("INSERT INTO name ...", values)
InsertMany(st, name, values) ==
    IF st.err # "none" THEN st
    ELSE IF st.file.kind = "garbage" THEN [st EXCEPT !.err = "DatabaseError"]
    ELSE IF name \notin st.work.tables THEN [st EXCEPT !.err = "OperationalError"]
    ELSE [st EXCEPT !.work = InsertRows(st.work, name, values, Len(values))]

\* conn.commit()
Commit(st) ==
    IF st.err # "none" THEN st ELSE [st EXCEPT !.file = SqliteFile(st.work)]

SeedPatients ==
    << [name |-> "Rahul Sharma", age |-> 30, gender |-> "Male"],
       [name |-> "Priya Singh", age |-> 25, gender |-> "Female"],
       [name |-> "Amit Verma", age |-> 45, gender |-> "Male"] >>

SeedServices ==
    << [service_name |-> "X-Ray", cost |-> 500],
       [service_name |-> "Blood Test", cost |-> 300],
       [service_name |-> "MRI Scan", cost |-> 2500],
       [service_name |-> "Consultation", cost |-> 400] >>

SeedBills ==
    << [patient_id |-> 1, service_id |-> 1, quantity |-> 1],
       [patient_id |-> 1, service_id |-> 4, quantity |-> 2],
       [patient_id |-> 2, service_id |-> 2, quantity |-> 1],
       [patient_id |-> 2, service_id |-> 4, quantity |-> 1],
       [patient_id |-> 3, service_id |-> 3, quantity |-> 1],
       [patient_id |-> 3, service_id |-> 4, quantity |-> 1] >>

\* The file and the exception (or "none") setup_database ends with.
setup_database(file) ==
    LET removed == IF Exists(file) THEN Remove(file) ELSE file
        conn == Connect(removed)
        t1 == CreateTable(conn, "Patients")
        t2 == CreateTable(t1, "Services")
        t3 == CreateTable(t2, "Bills")
        i1 == InsertMany(t3, "Patients", SeedPatients)
        i2 == InsertMany(i1, "Services", SeedServices)
        i3 == InsertMany(i2, "Bills", SeedBills)
        done == Commit(i3)
    IN [file |-> done.file, err |-> done.err]

\* Bills JOIN Patients JOIN Services: the positions <<b, p, s>> of the rows
\* that match.
Joined(d) ==
    {<<b, q, v>> \in (DOMAIN d.rows["Bills"]) \X (DOMAIN d.rows["Patients"])
                       \X (DOMAIN d.rows["Services"]) :
        /\ d.rows["Bills"][b]["patient_id"] = d.rows["Patients"][q]["patient_id"]
        /\ d.rows["Bills"][b]["service_id"] = d.rows["Services"][v]["service_id"]}

\* The columns of the SELECT for one match.
RowOf(d, j) ==
    LET b == d.rows["Bills"][j[1]]
        q == d.rows["Patients"][j[2]]
        v == d.rows["Services"][j[3]]
    IN [Patient_Name |-> q["name"], Age |-> q["age"], Gender |-> q["gender"],
        Service |-> v["service_name"], Quantity |-> b["quantity"],
        Cost |-> v["cost"], Total |-> v["cost"] * b["quantity"]]

\* The order of the names under ORDER BY p.name (binary collation).
NameOrder == <<"Amit Verma", "Priya Singh", "Rahul Sharma", "Zoya Khan">>
Rank(name) == CHOOSE i \in DOMAIN NameOrder : NameOrder[i] = name

\* ORDER BY p.name: every order of the matches with the names ascending;
\* rows of one name come in an order SQL leaves open.
RECURSIVE Orders(_, _)
Orders(S, d) ==
    IF S = {} THEN {<<>>}
    ELSE LET least == {j \in S : \A k \in S :
                          Rank(RowOf(d, j).Patient_Name) <= Rank(RowOf(d, k).Patient_Name)}
         IN UNION {{<<RowOf(d, j)>> \o o : o \in Orders(S \ {j}, d)} : j \in least}

NoData == [set |-> FALSE, err |-> "none", rows |-> <<>>]

\* get_all_bills: the file it leaves, and the lists fetchall() may return
\* or the exception raised.
get_all_bills(file) ==
    LET conn == Connect(file) IN
    IF conn.file.kind = "garbage"
    THEN [file |-> conn.file, err |-> "DatabaseError", results |-> {<<>>}]
    ELSE IF ~(TableNames \subseteq conn.work.tables)
    THEN [file |-> conn.file, err |-> "OperationalError", results |-> {<<>>}]
    ELSE [file |-> conn.file, err |-> "none",
          results |-> Orders(Joined(conn.work), conn.work)]

\* The file as the run before left it.
Seeded == setup_database(Absent).file

InitDb ==
    /\ InitCalls({<<>>})
    /\ pure = Off
    /\ par = Off
    /\ iter = Off
    /\ loan = Off
    /\ scan = Off
    /\ ecg = Off
    /\ \E f \in {Absent, Garbage, Seeded} :
          db = [on |-> TRUE, file |-> f, run |-> "before", err |-> "none",
                found |-> Absent, tampers |-> 0, data |-> NoData]

\* main() up to the return of setup_database. found keeps, while the
\* program runs, the file the run started with.
Main ==
    /\ db.on
    /\ db.run # "running"
    /\ LET r == setup_database(db.file) IN
       db' = [db EXCEPT !.file = r.file, !.err = r.err, !.found = db.file,
                        !.run = IF r.err = "none" THEN "running" ELSE "crashed",
                        !.tampers = 0, !.data = NoData]
    /\ UNCHANGED <<mmVars, pure, par, iter, loan, scan, ecg>>

\* The "Show All Bills" button.
show_all_bills ==
    /\ db.on
    /\ db.run = "running"
    /\ LET r == get_all_bills(db.file) IN
       \E rows \in r.results :
          db' = [db EXCEPT !.file = r.file,
                           !.data = [set |-> TRUE, err |-> r.err, rows |-> rows]]
    /\ UNCHANGED <<mmVars, pure, par, iter, loan, scan, ecg>>

\* The "Exit" button.
Exit ==
    /\ db.on
    /\ db.run = "running"
    /\ db' = [db EXCEPT !.run = "exited", !.found = Absent]
    /\ UNCHANGED <<mmVars, pure, par, iter, loan, scan, ecg>>

\* Something else changes the file while the program is not running.
Tamper(f) ==
    /\ db.on
    /\ db.run # "running"
    /\ db.tampers < MaxTamper
    /\ f # db.file
    /\ db' = [db EXCEPT !.file = f, !.tampers = @ + 1]
    /\ UNCHANGED <<mmVars, pure, par, iter, loan, scan, ecg>>

\* The files one external change makes of an SQLite file: a bill or a
\* patient more, the quantity of the first or last bill changed, the first or
\* last bill deleted.
Tampered(file) ==
    IF file.kind # "sqlite" \/ ~(TableNames \subseteq file.db.tables) THEN {}
    ELSE LET d == file.db
             bills == d.rows["Bills"]
         IN {SqliteFile(InsertRow(d, "Bills",
                            [patient_id |-> q, service_id |-> 4, quantity |-> 1])) :
                q \in {1, 9}}
            \cup {SqliteFile(InsertRow(d, "Patients",
                            [name |-> "Zoya Khan", age |-> 52, gender |-> "Female"]))}
            \cup {SqliteFile([d EXCEPT !.rows["Bills"][i]["quantity"] = @ + 1]) :
                    i \in DOMAIN bills \cap {1, Len(bills)}}
            \cup {SqliteFile([d EXCEPT !.rows["Bills"] =
                                [k \in 1..(Len(bills) - 1) |->
                                    IF k < i THEN bills[k] ELSE bills[k + 1]]]) :
                    i \in DOMAIN bills \cap {1, Len(bills)}}

NextDb ==
    \/ Main
    \/ show_all_bills
    \/ Exit
    \/ \E f \in Tampered(db.file) \cup {Absent, Garbage} : Tamper(f)

SpecDb == InitDb /\ [][NextDb]_vars

\* Rows 1..n of a table whose keys were given in order from 1.
Numbered(name, values) ==
    [i \in DOMAIN values |-> (KeyOf[name] :> i) @@ values[i]]

\* C20: whatever file setup_database finds, it returns normally and leaves
\* exactly the 3 seeded patients, 4 seeded services and 6 seeded bills, and
\* get_all_bills then returns exactly 6 rows.
C20_EveryRunClean ==
    db.run \in {"running", "crashed"} =>
        /\ db.run = "running"
        /\ db.file.kind = "sqlite"
        /\ db.file.db.tables = TableNames
        /\ db.file.db.rows["Patients"] = Numbered("Patients", SeedPatients)
        /\ db.file.db.rows["Services"] = Numbered("Services", SeedServices)
        /\ db.file.db.rows["Bills"] = Numbered("Bills", SeedBills)
        /\ Len(db.file.db.rows["Patients"]) = 3
        /\ Len(db.file.db.rows["Services"]) = 4
        /\ Len(db.file.db.rows["Bills"]) = 6
        /\ db.data.set => (db.data.err = "none" /\ Len(db.data.rows) = 6)

C20_Witness ==
    /\ db.run = "running"
    /\ db.found.kind = "sqlite"
    /\ Len(db.found.db.rows["Bills"]) = 7
    /\ db.found.db.rows["Bills"][1]["quantity"] = 2
    /\ db.data.set
    /\ Len(db.data.rows) = 6

\* =================================================================
\* Further claims on find_min_max (specification Spec).

\* The frame stack[i] is in its recursive case and stack[i + 1] is the call
\* it is waiting for.
Waiting(i) == i < Len(stack) /\ stack[i].pc \in {"left", "right"}

\* What C21 says of the frame f and the call c it is waiting for.
SplitsInHalves(f, c) ==
    LET m == (f.low + f.high) \div 2
        leftPart == f.low..m
        rightPart == (m + 1)..f.high
    IN /\ f.high > f.low + 1
       /\ f.low <= m /\ m < f.high
       /\ IF f.pc = "left"
          THEN c.low = f.low /\ c.high = m
          ELSE c.low = m + 1 /\ c.high = f.high
       /\ leftPart # {} /\ rightPart # {}
       /\ leftPart \cap rightPart = {}
       /\ leftPart \cup rightPart = f.low..f.high
       /\ Cardinality(leftPart) - Cardinality(rightPart) \in {0, 1}

\* C21: in the recursive case of a valid call mid = floor((low + high) / 2)
\* satisfies low <= mid < high, the two recursive calls are on [low, mid] and
\* [mid+1, high], which are non-empty, disjoint and cover [low, high], and the
\* left part has as many elements as the right part or one more.
C21_SplitsInHalves ==
    ValidCall =>
        /\ \A i \in 1..Len(stack) : Waiting(i) => SplitsInHalves(stack[i], stack[i + 1])
        /\ \A i \in 1..Len(stack) : stack[i].pc # "start" => stack[i].high > stack[i].low + 1

C21_Witness ==
    /\ ValidCall /\ Size = 5 /\ Len(stack) = 2
    /\ stack[1].pc = "right"
    /\ stack[2].low = args.low + 3 /\ stack[2].high = args.high
    /\ stack[2].pc = "start"

\* C22: during a call on a valid range every index read lies inside
\* [low, high], the call raises no IndexError, and when it has returned every
\* index of [low, high] has been read.
C22_ReadsExactlyTheRange ==
    ValidCall =>
        /\ reads \subseteq args.low..args.high
        /\ result.kind # "IndexError"
        /\ Done => reads = args.low..args.high

C22_Witness ==
    /\ Done /\ ValidCall /\ Size = 5
    /\ args.low > 0 /\ args.high < Len(arr) - 1
    /\ reads = args.low..args.high

\* C23: a call with low > high never reaches a base case: every frame is in
\* the recursive branch or about to take it, every nested call is a left
\* call (low, mid) with mid < low, nothing is ever returned to a frame, and
\* the call ends with no pair (the interpreter stops it with RecursionError).
C23_InvertedRangeNeverReturns ==
    args.low > args.high =>
        /\ \A i \in 1..Len(stack) :
              /\ stack[i].low = args.low
              /\ stack[i].high < stack[i].low
              /\ stack[i].pc = IF i < Len(stack) THEN "left" ELSE "start"
        /\ ret.kind = "none"
        /\ reads = {}
        /\ result.kind \in {"none", "RecursionError"}

C23_Witness ==
    /\ args.low > args.high
    /\ Len(stack) = RecursionLimit
    /\ Top.pc = "start" /\ Top.high < Top.low
    /\ args.low = args.high + 1

\* n is a power of two.
RECURSIVE IsPowerOfTwo(_)
IsPowerOfTwo(n) ==
    IF n <= 1 THEN n = 1 ELSE n % 2 = 0 /\ IsPowerOfTwo(n \div 2)

\* C24: on a valid range whose number of elements n >= 2 is a power of two
\* the call makes exactly 3n/2 - 2 element comparisons.
C24_PowerOfTwoCount ==
    (Done /\ ValidCall /\ Size >= 2 /\ IsPowerOfTwo(Size))
        => comparisons = (3 * Size) \div 2 - 2

C24_Witness ==
    /\ Done /\ ValidCall /\ Size = 8 /\ comparisons = 10
    /\ arr = DemoArr

\* =================================================================
\* Further claims on the simulated port scan (specification SpecScan).

\* No port of the report is listed both as open and as closed/filtered.
ClosedApartFromOpen(r) ==
    \A i \in DOMAIN r.open : \A j \in DOMAIN r.closed : r.open[i].port # r.closed[j]

\* C25: in every report the ports listed as "Other (simulated) ports"
\* (closed/filtered) are disjoint from the ports listed as open.
C25_ClosedDisjointFromOpen ==
    /\ scan.first.set => ClosedApartFromOpen(scan.first.report)
    /\ scan.second.set => ClosedApartFromOpen(scan.second.report)

\* =================================================================
\* The ECG demo, src/Lab 22/22-4/22-4.py.
\*
\* A signal is the samples of a CSV file or a synthetic trace, known by its
\* heart rate. A CSV file is its rows, a row its cells, a cell a number or a
\* text that float() rejects. The digest and the generator behind
\* simulated_model_predict and show_explainability are a function of the
\* summary of the signal. Drawing a signal raises nothing.

\* if len(samples) < 10
MinSamples == 10

TextCell == [num |-> FALSE, v |-> 0]
NumCell(v) == [num |-> TRUE, v |-> v]

\* for cell in row: try: val = float(cell); break
RECURSIVE FirstNumeric(_)
FirstNumeric(row) ==
    IF row = <<>> THEN [found |-> FALSE, v |-> 0]
    ELSE IF Head(row).num THEN [found |-> TRUE, v |-> Head(row).v]
    ELSE FirstNumeric(Tail(row))

\* The loop over the rows of the reader: empty rows and rows without a
\* numeric cell add nothing.
RECURSIVE Samples(_)
Samples(rows) ==
    IF rows = <<>> THEN <<>>
    ELSE LET r == rows[Len(rows)]
             before == Samples(SubSeq(rows, 1, Len(rows) - 1))
         IN IF r = <<>> \/ ~FirstNumeric(r).found THEN before
            ELSE Append(before, FirstNumeric(r).v)

\* A CSV file with an empty row, a header row and k rows that hold a number,
\* every second one behind a text cell.
CsvFile(k, level) ==
    << <<>>, <<TextCell, TextCell>> >>
    \o [i \in 1..k |-> IF i % 2 = 1 THEN <<NumCell((i * level) % 5)>>
                       ELSE <<TextCell, NumCell((i * level) % 5)>>]

\* What the file dialog and open() give load_ecg_csv.
Picks ==
    {[kind |-> "cancel", rows |-> <<>>], [kind |-> "unreadable", rows |-> <<>>]}
    \cup {[kind |-> "csv", rows |-> CsvFile(k, level)] :
            k \in {0, MinSamples - 1, MinSamples, MinSamples + 1}, level \in {1, 2}}

\* heart_rate=60 + np.random.randint(-10, 11): the ends and the middle.
HeartRates == {60 - 10, 60, 60 + 10}

NoSignal == [source |-> "none", samples |-> <<>>, heart_rate |-> 0, n |-> 0]
CsvSignal(samples) ==
    [source |-> "csv", samples |-> samples, heart_rate |-> 0, n |-> Len(samples)]
Synthetic(h) ==
    [source |-> "synthetic", samples |-> <<>>, heart_rate |-> h, n |-> 10 * 250]

RECURSIVE SumOf(_)
SumOf(x) == IF x = <<>> THEN 0 ELSE Head(x) + SumOf(Tail(x))

\* The seed drawn from the digest of "mean-std-len" of the signal.
SeedOf(sig) == (31 * SumOf(sig.samples) + 7 * sig.n + sig.heart_rate) % 97

\* (label, confidence, explanation); confidence in hundredths.
simulated_model_predict(sig) ==
    LET seed == SeedOf(sig) IN
    IF seed % 3 = 0
    THEN [label |-> "Anomaly (simulated)", confidence |-> 50 + (seed % 50),
          explanation |-> "higher-than-usual variability"]
    ELSE [label |-> "Normal (simulated)", confidence |-> 50 + (seed % 50),
          explanation |-> "within typical demo range"]

NoPrediction == [set |-> FALSE]
NoSpan == [set |-> FALSE]
NoReport == [set |-> FALSE]

\* The region show_explainability highlights, in tenths of a second.
SpanOf(sig) ==
    LET seed == SeedOf(sig) IN 
    [set |-> TRUE, start |-> seed % 80, end |-> (seed % 80) + 2 + (seed % 10)]

\* The signal is replaced but last_prediction is left as it was.
ReplaceKeepsPrediction(e, sig, info) ==
    [e EXCEPT !.ecg_signal = sig, !.info_label = info, !.highlight = NoSpan,
              !.result_text = "Result: -", !.inferred = FALSE]

\* The common end of load_ecg_csv and generate_and_plot: the new signal is
\* stored and drawn without highlight, last_prediction and the result text
\* are reset. inferred notes that no inference has run on the new signal.
Replace(e, sig, info) ==
    [e EXCEPT !.ecg_signal = sig, !.info_label = info, !.highlight = NoSpan,
              !.last_prediction = NoPrediction, !.result_text = "Result: -",
              !.inferred = FALSE]

\* A handler ends having shown the dialog or text d.
Shown(e, handler, d) == [e EXCEPT !.last = handler, !.shown = d]

InitEcg ==
    /\ InitCalls({<<>>})
    /\ pure = Off
    /\ par = Off
    /\ iter = Off
    /\ loan = Off
    /\ scan = Off
    /\ db = Off
    /\ \E h \in HeartRates :
          ecg = Replace([on |-> TRUE, ecg_signal |-> NoSignal,
                         last_prediction |-> NoPrediction, last_explanation |-> "None",
                         info_label |-> "No data loaded.", result_text |-> "Result: -",
                         highlight |-> NoSpan, discuss |-> "", shown |-> "", last |-> "__init__",
                         written |-> NoReport, inferred |-> FALSE],
                        Synthetic(h), "Synthetic ECG generated")

load_ecg_csv(pick) ==
    /\ ecg.on
    /\ ecg' = IF pick.kind = "cancel" THEN Shown(ecg, "load_ecg_csv", "")
              ELSE IF pick.kind = "unreadable" THEN Shown(ecg, "load_ecg_csv", "Load error")
              ELSE IF Len(Samples(pick.rows)) < MinSamples
                   THEN Shown(ecg, "load_ecg_csv", "Too short")
                   ELSE Shown(Replace(ecg, CsvSignal(Samples(pick.rows)), "Loaded CSV"),
                              "load_ecg_csv", "")
    /\ UNCHANGED <<mmVars, pure, par, iter, loan, scan, db>>

generate_and_plot(h) ==
    /\ ecg.on
    /\ ecg' = Shown(Replace(ecg, Synthetic(h), "Synthetic ECG generated"),
                    "generate_and_plot", "")
    /\ UNCHANGED <<mmVars, pure, par, iter, loan, scan, db>>

run_inference(ts) ==
    /\ ecg.on
    /\ ecg' = IF ecg.ecg_signal = NoSignal THEN Shown(ecg, "run_inference", "No data")
              ELSE LET p == simulated_model_predict(ecg.ecg_signal) IN
                   Shown([ecg EXCEPT
                            !.last_prediction = [set |-> TRUE, label |-> p.label,
                                                 confidence |-> p.confidence, ts |-> ts],
                            !.last_explanation = p.explanation,
                            !.result_text = p.label,
                            !.discuss = "SIMULATED MODEL OUTPUT",
                            !.inferred = TRUE],
                         "run_inference", "")
    /\ UNCHANGED <<mmVars, pure, par, iter, loan, scan, db>>

show_explainability ==
    /\ ecg.on
    /\ ecg' = IF ecg.ecg_signal = NoSignal THEN Shown(ecg, "show_explainability", "No data")
              ELSE IF ecg.last_explanation = "None"
              THEN Shown(ecg, "show_explainability", "No inference yet")
              ELSE Shown([ecg EXCEPT !.highlight = SpanOf(ecg.ecg_signal),
                                     !.discuss = "Explainability (simulated)"],
                         "show_explainability", "Explainability")
    /\ UNCHANGED <<mmVars, pure, par, iter, loan, scan, db>>

\* save: the save dialog is cancelled, the file is written, or open() fails.
ecg_export_report(save) ==
    /\ ecg.on
    /\ ecg' = IF ~ecg.last_prediction.set THEN Shown(ecg, "export_report", "No result")
              ELSE IF save = "cancel" THEN Shown(ecg, "export_report", "")
              ELSE IF save = "fails" THEN Shown(ecg, "export_report", "Save error")
              ELSE Shown([ecg EXCEPT !.written =
                            [set |-> TRUE, ts |-> ecg.last_prediction.ts,
                             label |-> ecg.last_prediction.label,
                             confidence |-> ecg.last_prediction.confidence,
                             explanation |-> ecg.last_explanation]],
                         "export_report", "Saved")
    /\ UNCHANGED <<mmVars, pure, par, iter, loan, scan, db>>

\* q1, q2, q3: the three policy questions only print their text.
q(i) ==
    /\ ecg.on
    /\ ecg' = Shown([ecg EXCEPT !.discuss = i], i, "")
    /\ UNCHANGED <<mmVars, pure, par, iter, loan, scan, db>>

NextEcg ==
    \/ \E pick \in Picks : load_ecg_csv(pick)
    \/ \E i \in {"q1", "q2", "q3"} : q(i)
    \/ \E h \in HeartRates : generate_and_plot(h)
    \/ \E ts \in Clock : run_inference(ts)
    \/ show_explainability
    \/ \E save \in {"cancel", "written", "fails"} : ecg_export_report(save)

SpecEcg == InitEcg /\ [][NextEcg]_vars

\* C26: show_explainability highlights a region and prints an explanation
\* only if run_inference has run on the signal now loaded; otherwise it shows
\* "Run simulated AI inference first" and highlights nothing.
C26_ExplainsOnlyAfterInference ==
    ecg.last = "show_explainability" =>
        IF ecg.inferred
        THEN ecg.shown = "Explainability" /\ ecg.highlight.set
        ELSE ecg.shown = "No inference yet" /\ ~ecg.highlight.set

\* last_prediction is None or what run_inference made of the signal now
\* loaded, and a report on disk is one of a prediction.
PredictionOfLoadedSignal ==
    /\ ecg.last_prediction.set = ecg.inferred
    /\ ecg.last_prediction.set =>
          /\ ecg.last_prediction.label = simulated_model_predict(ecg.ecg_signal).label
          /\ ecg.last_prediction.confidence
                = simulated_model_predict(ecg.ecg_signal).confidence
    /\ (ecg.last = "export_report" /\ ecg.shown = "Saved") =>
          /\ ecg.inferred
          /\ ecg.written.label = ecg.last_prediction.label
          /\ ecg.written.confidence = ecg.last_prediction.confidence
          /\ ecg.written.ts = ecg.last_prediction.ts

\* One handler of the window, seen as a step.
EcgStep ==
    /\ (ecg'.last \in {"load_ecg_csv", "generate_and_plot"} /\ ecg'.ecg_signal # ecg.ecg_signal)
          => ~ecg'.last_prediction.set
    /\ (ecg'.last = "generate_and_plot") => ~ecg'.last_prediction.set
    /\ (ecg'.last = "export_report" /\ ~ecg.inferred)
          => ecg'.shown = "No result" /\ ecg'.written = ecg.written
    /\ (ecg'.last = "export_report" /\ ecg'.written # ecg.written) => ecg.inferred
    /\ (ecg'.last = "load_ecg_csv" /\ ecg'.shown = "Too short")
          => /\ ecg'.ecg_signal = ecg.ecg_signal
             /\ ecg'.last_prediction = ecg.last_prediction

Typed(k) ==
    IF k = "income" THEN Entries(k)
    ELSE IF k \in {"credit_score", "age"} THEN {Numeral(Defaults[k]), Junk}
    ELSE {}

NoFile == [set |-> FALSE]

InitLoanApp ==
    /\ InitCalls({<<>>})
    /\ pure = Off
    /\ par = Off
    /\ iter = Off
    /\ scan = Off
    /\ db = Off
    /\ ecg = Off
    /\ loan = [on |-> TRUE,
               user |-> "LoanAIApp",
               form |-> [k \in Fields |-> Numeral(Defaults[k])],
               last_result |-> NoResult,
               prev_result |-> NoResult,
               result_label |-> NoLabel,
               contrib_text |-> NoRows,
               dialog |-> "none",
               direct |-> NoResult,
               prev_direct |-> NoResult,
               discussion |-> [text |-> "Welcome!"],
               written |-> NoFile]

\* The "Explain Decision" button.
show_explanation ==
    /\ loan.on
    /\ loan.user = "LoanAIApp"
    /\ loan' = IF ~loan.last_result.set
               THEN [loan EXCEPT !.dialog = "No decision"]
               ELSE LET top == loan.last_result.contribs[1] IN
                    [loan EXCEPT
                        !.discussion = [text |-> "Explainability result",
                                        score |-> Fmt2(loan.last_result.score),
                                        decision |-> loan.last_result.decision,
                                        name |-> top.name, c |-> Fmt3(top.c)],
                        !.dialog = "none"]
    /\ UNCHANGED <<mmVars, pure, par, iter, scan, db, ecg>>

\* The "Export Report" button. save: the save dialog is cancelled, the file
\* is written, or open() fails.
export_report(save) ==
    /\ loan.on
    /\ loan.user = "LoanAIApp"
    /\ loan' = IF ~loan.last_result.set
               THEN [loan EXCEPT !.dialog = "No decision"]
               ELSE IF save = "cancel" THEN [loan EXCEPT !.dialog = "none"]
               ELSE IF save = "fails" THEN [loan EXCEPT !.dialog = "Save failed"]
               ELSE [loan EXCEPT
                        !.written = [set |-> TRUE, f |-> loan.last_result.f,
                                     decision |-> loan.last_result.decision,
                                     score |-> Fmt2(loan.last_result.score),
                                     rows |-> RowsOf(loan.last_result.contribs)],
                        !.dialog = "Saved"]
    /\ UNCHANGED <<mmVars, pure, par, iter, scan, db, ecg>>

\* The three buttons of the discussion panel only append their text.
panel(name) ==
    /\ loan.on
    /\ loan.user = "LoanAIApp"
    /\ loan' = [loan EXCEPT !.discussion = [text |-> name]]
    /\ UNCHANGED <<mmVars, pure, par, iter, scan, db, ecg>>

NextLoanApp ==
    \/ \E k \in Fields : \E s \in Typed(k) : Edit(k, s)
    \/ run_decision
    \/ show_explanation
    \/ \E save \in {"cancel", "written", "fails"} : export_report(save)
    \/ \E name \in {"panel_explainable", "panel_blackbox_risks", "panel_fairness"} :
          panel(name)

SpecLoanApp == InitLoanApp /\ [][NextLoanApp]_vars

\* What run_decision stores for the features f.
ResultOf(f) ==
    [set |-> TRUE, score |-> compute(f).score, decision |-> compute(f).decision,
     contribs |-> compute(f).contribs, n |-> compute(f).n, f |-> f]

\* last_result is None with nothing displayed or written, or it is the output
\* of compute on clamped features, which is what the window displays.
ResultIsOfCompute ==
    IF ~loan.last_result.set
    THEN /\ loan.result_label = NoLabel
         /\ loan.contrib_text = NoRows
         /\ ~loan.written.set
         /\ loan.discussion.text # "Explainability result"
    ELSE /\ loan.last_result = ResultOf(loan.last_result.f)
         /\ \A k \in Fields :
               Ge(loan.last_result.f[k], Lo(k)) /\ Ge(Hi(k), loan.last_result.f[k])
         /\ loan.result_label = LabelOf(compute(loan.last_result.f))
         /\ loan.contrib_text = RowsOf(compute(loan.last_result.f).contribs)

\* One press of a button, or one edit, of the window.
LoanAppStep ==
    /\ (run_decision /\ get_features(loan.form).ok)
          => loan'.last_result = ResultOf(get_features(loan.form).f)
    /\ (run_decision /\ ~get_features(loan.form).ok)
          => /\ loan'.dialog = "Invalid input"
             /\ loan'.last_result = loan.last_result
             /\ loan'.result_label = loan.result_label
             /\ loan'.contrib_text = loan.contrib_text
    /\ loan'.last_result # loan.last_result
          => run_decision /\ get_features(loan.form).ok
    /\ ((show_explanation \/ \E save \in {"cancel", "written", "fails"} : export_report(save))
            /\ ~loan.last_result.set)
          => loan' = [loan EXCEPT !.dialog = "No decision"]

\* C28: last_result is None until the first successful run_decision and then
\* is the output of compute on the clamped inputs of the latest successful
\* run_decision; a run_decision with a non-numeric field shows "Invalid
\* input" and leaves last_result, the result label and the contributions as
\* they were; show_explanation and export_report with last_result None show
\* only "Run a decision first." and write nothing.
C28_LastResultOfLatestValidRun ==
    [](loan.on => ResultIsOfCompute) /\ [][loan.on => LoanAppStep]_vars

\* A second decision has replaced the first, a report is on disk, and a
\* run_decision on a form with a non-numeric field was then refused.
C28_Witness ==
    /\ loan.on
    /\ loan.user = "LoanAIApp"
    /\ loan.dialog = "Invalid input"
    /\ ~get_features(loan.form).ok
    /\ loan.last_result.set
    /\ loan.prev_result.set
    /\ loan.prev_result # loan.last_result
    /\ loan.written.set

====
